---------------------------- MODULE Spec2Model ----------------------------
(***************************************************************************)
(* Model of the concurrent, quota-aware request dispatcher of v4.py:       *)
(* ProxyManager (get_proxy / increment_usage / mark_proxy_failed), the     *)
(* per-subject retry loop query_api, process_person, save_results and the  *)
(* orchestrating main().                                                   *)
(*                                                                         *)
(* The bodies of the three ProxyManager operations run one at a time on    *)
(* the single-worker executor self.lock; each is one atomic step here.     *)
(* The outbound request of query_api and the handling of its outcome form  *)
(* one step (Attempt): the arrival of a response touches no shared state.  *)
(***************************************************************************)
EXTENDS Integers, Sequences, FiniteSets, TLC

\* ------------------------------------------------------------------ bounds
NumPersons == 2          \* rows of the input file
MaxProxies == 2          \* entries of the validated proxy list
MaxRecords == 1          \* records in one API answer
MaxTime == 3601          \* the clock stops being observed after this time
requests_per_hour == 1   \* ProxyManager.requests_per_hour (150 in production)

\* ------------------------------------------------------- program constants
max_retries == 3
MAX_WORKERS == 3
SAVE_INTERVAL == 300
WINDOW == 3600
LOCK_WORKERS == 1

\* The clock is observed coarsely: it is seen to advance by a little more
\* than half a window, or by a little more than a whole window.
TimeSteps == { (WINDOW \div 2) + 1, WINDOW + 1 }

None == "None"
Proxies == {"p1", "p2"}

\* HTTP status codes the remote API answers with, and the exceptions
\* requests.post raises.
StatusCodes == {200, 404, 429, 500}
RequestExceptions == {"ConnectionError", "ConnectTimeout", "ReadTimeout"}

IdentityKeys == {"person_id", "family_name", "name", "patronymic", "birth_date"}

\* Rows of the input file (csv.DictReader: every value is a string).
PersonRows ==
  << [id |-> "1", family_name |-> "Ivanov", name |-> "Ivan",
      patronymic |-> "Ivanovich", birth_date |-> "1950-01-02", death_date |-> ""],
     [id |-> "2", family_name |-> "Petrov", name |-> "Petr",
      patronymic |-> "Petrovich", birth_date |-> "1960-03-04", death_date |-> ""],
     [id |-> "3", family_name |-> "Sidorov", name |-> "Sidor",
      patronymic |-> "Sidorovich", birth_date |-> "1970-05-06", death_date |-> ""],
     [id |-> "4", family_name |-> "Orlov", name |-> "Oleg",
      patronymic |-> "Olegovich", birth_date |-> "1980-07-08", death_date |-> ""] >>

persons == SubSeq(PersonRows, 1, NumPersons)
Units == 1..NumPersons

\* Records the remote API may return: one with keys of its own only, one
\* that also carries keys named like the identity keys.
ApiRecords ==
  { [case_number |-> "A-1"],
    [case_number |-> "B-2", name |-> "Notary", person_id |-> "999"] }

SeqsUpTo(S, n) == UNION { [1..k -> S] : k \in 0..n }

\* response.json().get("records", [])
Responses == SeqsUpTo(ApiRecords, MaxRecords)

\* Validated proxy lists: load_proxies_from_csv and validate_proxies keep
\* duplicates.  The first entry is "p1" (the addresses are interchangeable).
ValidProxyLists ==
  { s \in SeqsUpTo(Proxies, MaxProxies) : Len(s) >= 1 /\ s[1] = "p1" }

Range(s) == { s[i] : i \in 1..Len(s) }

\* load_proxies_from_csv: the rows of PROXIES_FILE, [] when it has none or
\* cannot be read.
LoadedProxyLists == SeqsUpTo(Proxies, MaxProxies)

RECURSIVE IsSubsequence(_, _)
IsSubsequence(v, l) ==
  IF v = << >> THEN TRUE
  ELSE IF l = << >> THEN FALSE
  ELSE IF Head(v) = Head(l) THEN IsSubsequence(Tail(v), Tail(l))
  ELSE IsSubsequence(v, Tail(l))

\* validate_proxies: the entries of `list` whose probe succeeded, in order.
validate_proxies(list) ==
  { v \in ValidProxyLists \cup { << >> } : IsSubsequence(v, list) }

VARIABLES
  proxy_manager,   \* [proxies, proxy_usage, proxy_queue] of the ProxyManager
  now,             \* time.time()
  pc,              \* per unit: "idle","queued","acquire","request","done","raised"
  retry_count,     \* per unit: query_api's retry_count
  proxy,           \* per unit: query_api's proxy while a request is out
  result,          \* per unit: the future's result (process_person's return)
  attempts,        \* per unit: iterations of query_api's while loop started
  last,            \* per unit: classification of the attempt just finished
  all_server_error,\* per unit: every attempt so far was a server error
  all_unavailable, \* per unit: every attempt so far found no proxy
  mpc,             \* main's position
  futures,         \* main's futures list (unit ids)
  idx,             \* main's loop index (scan of futures / final drain)
  done_list,       \* main's [f for f in futures if f.done()]
  results,         \* global results
  last_save_time,  \* global last_save_time
  current_time,    \* main's current_time while a periodic save is under way
  file,            \* OUTPUT_FILE on disk
  evicted,         \* proxies for which a mark_proxy_failed call has completed
  saves,           \* completed save_results calls
  held,            \* per worker thread: the proxy its last get_proxy returned
  call,            \* per worker thread: "idle", or "waiting" in future.result()
  lock_queue,      \* work queue of the executor self.lock
  lock_thread      \* per thread of self.lock: the closure it runs and where

vars == << proxy_manager, now, pc, retry_count, proxy, result, attempts, last,
           all_server_error, all_unavailable, mpc, futures, idx, done_list,
           results, last_save_time, current_time, file, evicted, saves,
           held, call, lock_queue, lock_thread >>

unitVars == << pc, retry_count, proxy, result, attempts, last,
               all_server_error, all_unavailable >>
mainVars == << mpc, futures, idx, done_list, results, last_save_time,
               current_time, file, saves >>
lockVars == << held, call, lock_queue, lock_thread >>


\* ------------------------------------------------------------ ProxyManager

\* ProxyManager.__init__
NewProxyManager(list, t) ==
  [ proxies     |-> list,
    proxy_usage |-> [p \in Range(list) |-> [count |-> 0, last_reset |-> t]],
    proxy_queue |-> list ]

\* Mutant of ResetWindows: a window is taken to have elapsed after half an
\* hour.
ResetWindows_Early(usage, t) ==
  [p \in DOMAIN usage |->
     IF t - usage[p].last_reset > WINDOW \div 2
       THEN [count |-> 0, last_reset |-> t]
       ELSE usage[p]]

\* _get_proxy, lines 96-100: lazy reset of every elapsed window.
ResetWindows(usage, t) ==
  [p \in DOMAIN usage |->
     IF t - usage[p].last_reset > WINDOW
       THEN [count |-> 0, last_reset |-> t]
       ELSE usage[p]]

\* _get_proxy, lines 102-113: n iterations of the rotation left.  A queue
\* entry without a usage entry raises KeyError after its popleft.
RECURSIVE ScanQueue(_, _, _)
ScanQueue(queue, usage, n) ==
  IF n = 0
    THEN [ret |-> None, raised |-> FALSE, queue |-> queue]
    ELSE LET p == Head(queue)
             rest == Tail(queue)
         IN IF p \notin DOMAIN usage
              THEN [ret |-> None, raised |-> TRUE, queue |-> rest]
              ELSE IF usage[p].count < requests_per_hour
                     THEN [ret |-> p, raised |-> FALSE, queue |-> Append(rest, p)]
                     ELSE ScanQueue(Append(rest, p), usage, n - 1)

\* ProxyManager.get_proxy at time t: [pm, ret, raised].
get_proxy(pm, t) ==
  IF pm.proxies = << >>
    THEN [pm |-> pm, ret |-> None, raised |-> FALSE]
    ELSE LET usage == ResetWindows(pm.proxy_usage, t)
             scan == ScanQueue(pm.proxy_queue, usage, Len(pm.proxy_queue))
         IN [ pm |-> [pm EXCEPT !.proxy_usage = usage, !.proxy_queue = scan.queue],
              ret |-> scan.ret,
              raised |-> scan.raised ]

\* Mutant of increment_usage: the count is not recorded.
increment_usage_Skips(pm, p) == pm

\* ProxyManager.increment_usage
increment_usage(pm, p) ==
  IF p \in DOMAIN pm.proxy_usage
    THEN [pm EXCEPT !.proxy_usage[p].count = @ + 1]
    ELSE pm

\* list.remove: the first occurrence.
RECURSIVE Remove(_, _)
Remove(list, x) ==
  IF list = << >> THEN << >>
  ELSE IF Head(list) = x THEN Tail(list)
  ELSE << Head(list) >> \o Remove(Tail(list), x)

\* Mutant of mark_proxy_failed: the proxy leaves the list only; its usage
\* entry stays and the queue is not rebuilt.
mark_proxy_failed_KeepsUsage(pm, p) ==
  [ pm |-> [pm EXCEPT !.proxies = Remove(pm.proxies, p)], raised |-> FALSE ]

\* ProxyManager.mark_proxy_failed: [pm, raised].  del proxy_usage[p] raises
\* KeyError when p has no usage entry any more; the list is already shorter
\* then and the queue is not rebuilt.
mark_proxy_failed(pm, p) ==
  IF p \in Range(pm.proxies)
    THEN LET list == Remove(pm.proxies, p)
         IN IF p \in DOMAIN pm.proxy_usage
              THEN [ pm |-> [ proxies     |-> list,
                              proxy_usage |-> [q \in DOMAIN pm.proxy_usage \ {p}
                                                 |-> pm.proxy_usage[q]],
                              proxy_queue |-> list ],
                     raised |-> FALSE ]
              ELSE [ pm |-> [pm EXCEPT !.proxies = list], raised |-> TRUE ]
    ELSE [pm |-> pm, raised |-> FALSE]

\* ------------------------------------------------------------ query_api

\* query_api, lines 182-194 and 195-200: what one attempt's outcome is.
Classify(status) ==
  IF status = 200 THEN "Success"
  ELSE IF status = 429 THEN "RateLimited"
  ELSE IF status >= 500 THEN "ServerError"
  ELSE "ClientError"

\* isinstance(e, (requests.ConnectTimeout, requests.ConnectionError))
IsConnectionProblem(e) == e \in {"ConnectTimeout", "ConnectionError"}

\* dict.update: the argument's values replace those of equal keys.
Update(d, r) ==
  [k \in DOMAIN d \cup DOMAIN r |-> IF k \in DOMAIN r THEN r[k] ELSE d[k]]

Identity(person) ==
  [ person_id   |-> person.id,
    family_name |-> person.family_name,
    name        |-> person.name,
    patronymic  |-> person.patronymic,
    birth_date  |-> person.birth_date ]

\* process_person, lines 215-224: one record of the result.
record_with_person(person, record) == Update(Identity(person), record)

\* process_person applied to the records query_api returned.
process_person(person, records) ==
  [k \in 1..Len(records) |-> record_with_person(person, records[k])]


\* ------------------------------------------------------------ initial state

NoFile == [state |-> "absent", records |-> << >>]

\* Before main() has built it, the ProxyManager is shown as one without
\* any proxy.
NoProxyManager == NewProxyManager(<< >>, 0)

\* The worker threads of main's executor, as callers of the ProxyManager.
Workers == 1..MAX_WORKERS

\* Mutant of LockThreads: self.lock is given a second thread.
LockThreads_Two == 1..(LOCK_WORKERS + 1)

\* The threads of the executor self.lock.
LockThreads == 1..LOCK_WORKERS
IdleThread == [pc |-> "idle"]

\* The state in which main() is at position m with ProxyManager pm: nothing
\* submitted, nothing saved, no call on the ProxyManager under way.
InitWith(pm, m) ==
  /\ proxy_manager = pm
  /\ now = 0
  /\ pc = [u \in Units |-> "idle"]
  /\ retry_count = [u \in Units |-> 0]
  /\ proxy = [u \in Units |-> None]
  /\ result = [u \in Units |-> << >>]
  /\ attempts = [u \in Units |-> 0]
  /\ last = [u \in Units |-> "none"]
  /\ all_server_error = [u \in Units |-> TRUE]
  /\ all_unavailable = [u \in Units |-> TRUE]
  /\ mpc = m
  /\ futures = << >>
  /\ idx = 1
  /\ done_list = << >>
  /\ results = << >>
  /\ last_save_time = 0
  /\ current_time = 0
  /\ file = NoFile
  /\ evicted = {}
  /\ saves = 0
  /\ held = [w \in Workers |-> None]
  /\ call = [w \in Workers |-> "idle"]
  /\ lock_queue = << >>
  /\ lock_thread = [th \in LockThreads |-> IdleThread]

\* main() is entered: no proxy loaded yet.
Init == InitWith(NoProxyManager, "load")

\* ------------------------------------------------------------ the clock

\* main has built the ProxyManager and its executor runs the workers.
Dispatching == mpc \notin {"load", "no_proxies", "no_valid_proxies"}

\* The clock is observed from the construction of the ProxyManager on.
Tick ==
  /\ Dispatching
  /\ \E d \in TimeSteps :
       /\ now + d <= MaxTime
       /\ now' = now + d
  /\ UNCHANGED << proxy_manager, unitVars, mainVars, evicted, lockVars >>

\* ------------------------------------------------------------ work units

Running == { u \in Units : pc[u] \in {"acquire", "request"} }
Finished(u) == pc[u] \in {"done", "raised"}

\* A worker thread of the executor takes the unit from the work queue
\* (first in, first out) and enters query_api.
StartUnit(u) ==
  /\ pc[u] = "queued"
  /\ Cardinality(Running) < MAX_WORKERS
  /\ \A v \in Units : v < u => pc[v] # "queued"
  /\ pc' = [pc EXCEPT ![u] = "acquire"]
  /\ UNCHANGED << proxy_manager, now, retry_count, proxy, result, attempts, last,
                  all_server_error, all_unavailable, mainVars, evicted, lockVars >>

\* Mutants of NextRetryCount: one branch forgets retry_count += 1.
NextRetryCount_SkipsClientError(rc, class) ==
  IF class = "ClientError" THEN rc ELSE rc + 1

NextRetryCount_SkipsUnavailable(rc, class) ==
  IF class = "Unavailable" THEN rc ELSE rc + 1

\* query_api: retry_count += 1 on every branch that does not return.
NextRetryCount(rc, class) == rc + 1

\* Mutant of Retry: a ClientError status makes query_api return [] at once.
Retry_ClientErrorReturns(u, class) ==
  /\ retry_count' = [retry_count EXCEPT ![u] = @ + 1]
  /\ last' = [last EXCEPT ![u] = class]
  /\ all_server_error' = [all_server_error EXCEPT ![u] = @ /\ class = "ServerError"]
  /\ all_unavailable' = [all_unavailable EXCEPT ![u] = @ /\ class = "Unavailable"]
  /\ proxy' = [proxy EXCEPT ![u] = None]
  /\ IF class = "ClientError"
       THEN /\ pc' = [pc EXCEPT ![u] = "done"]
            /\ result' = [result EXCEPT ![u] = << >>]
       ELSE /\ pc' = [pc EXCEPT ![u] = "acquire"]
            /\ UNCHANGED result

\* query_api: the end of an iteration classified `class` that did not
\* return: count it and go back to the loop's test.
Retry(u, class) ==
  LET rc == NextRetryCount(retry_count[u], class)
  IN /\ retry_count' = [retry_count EXCEPT ![u] = rc]
     /\ last' = [last EXCEPT ![u] = class]
     /\ all_server_error' = [all_server_error EXCEPT ![u] = @ /\ class = "ServerError"]
     /\ all_unavailable' = [all_unavailable EXCEPT ![u] = @ /\ class = "Unavailable"]
     /\ proxy' = [proxy EXCEPT ![u] = None]
     /\ pc' = [pc EXCEPT ![u] = "acquire"]
     /\ UNCHANGED result

\* An exception that query_api does not catch ends the unit: the future
\* holds the exception.
Raise(u) ==
  /\ pc' = [pc EXCEPT ![u] = "raised"]
  /\ last' = [last EXCEPT ![u] = "KeyError"]
  /\ all_server_error' = [all_server_error EXCEPT ![u] = FALSE]
  /\ all_unavailable' = [all_unavailable EXCEPT ![u] = FALSE]
  /\ proxy' = [proxy EXCEPT ![u] = None]
  /\ UNCHANGED << retry_count, result >>

\* query_api, lines 157 and 202-203: the loop's test fails, query_api
\* returns [] and process_person returns no record.
GiveUp(u) ==
  /\ pc[u] = "acquire"
  /\ ~(retry_count[u] < max_retries)
  /\ pc' = [pc EXCEPT ![u] = "done"]
  /\ result' = [result EXCEPT ![u] = process_person(persons[u], << >>)]
  /\ last' = [last EXCEPT ![u] = "Exhausted"]
  /\ UNCHANGED << proxy_manager, now, retry_count, proxy, attempts,
                  all_server_error, all_unavailable, mainVars, evicted, lockVars >>

\* query_api, lines 157-164: the head of an iteration.
Acquire(u) ==
  /\ pc[u] = "acquire"
  /\ retry_count[u] < max_retries
  /\ LET g == get_proxy(proxy_manager, now)
     IN /\ proxy_manager' = g.pm
        /\ attempts' = [attempts EXCEPT ![u] = @ + 1]
        /\ IF g.raised THEN Raise(u)
           ELSE IF g.ret = None THEN Retry(u, "Unavailable")
           ELSE /\ proxy' = [proxy EXCEPT ![u] = g.ret]
                /\ pc' = [pc EXCEPT ![u] = "request"]
                /\ last' = [last EXCEPT ![u] = "none"]
                /\ all_unavailable' = [all_unavailable EXCEPT ![u] = FALSE]
                /\ UNCHANGED << retry_count, result, all_server_error >>
  /\ UNCHANGED << now, mainVars, evicted, lockVars >>

\* query_api, lines 172-194: requests.post returned a response.
AttemptResponse(u) ==
  /\ pc[u] = "request"
  /\ \E status \in StatusCodes :
       /\ proxy_manager' = increment_usage(proxy_manager, proxy[u])
       /\ IF Classify(status) = "Success"
            THEN \E records \in Responses :
                   /\ result' = [result EXCEPT ![u] = process_person(persons[u], records)]
                   /\ pc' = [pc EXCEPT ![u] = "done"]
                   /\ last' = [last EXCEPT ![u] = "Success"]
                   /\ all_server_error' = [all_server_error EXCEPT ![u] = FALSE]
                   /\ all_unavailable' = [all_unavailable EXCEPT ![u] = FALSE]
                   /\ proxy' = [proxy EXCEPT ![u] = None]
                   /\ UNCHANGED retry_count
            ELSE Retry(u, Classify(status))
  /\ UNCHANGED << now, attempts, mainVars, evicted, lockVars >>

\* Mutant of AttemptException: the failed attempt is recorded as a use of
\* the proxy before the exception is handled.
AttemptException_RecordsUsage(u) ==
  /\ pc[u] = "request"
  /\ \E e \in RequestExceptions :
       LET used == increment_usage(proxy_manager, proxy[u])
       IN IF IsConnectionProblem(e)
            THEN LET m == mark_proxy_failed(used, proxy[u])
                 IN /\ proxy_manager' = m.pm
                    /\ IF m.raised
                         THEN Raise(u) /\ UNCHANGED evicted
                         ELSE /\ Retry(u, "ConnectionFailure")
                              /\ evicted' = evicted \cup {proxy[u]}
            ELSE /\ Retry(u, "RequestFailure")
                 /\ proxy_manager' = used
                 /\ UNCHANGED evicted
  /\ UNCHANGED << now, attempts, mainVars, lockVars >>

\* query_api, lines 195-200: requests.post raised a RequestException.
AttemptException(u) ==
  /\ pc[u] = "request"
  /\ \E e \in RequestExceptions :
       IF IsConnectionProblem(e)
         THEN LET m == mark_proxy_failed(proxy_manager, proxy[u])
              IN /\ proxy_manager' = m.pm
                 /\ IF m.raised
                      THEN Raise(u) /\ UNCHANGED evicted
                      ELSE /\ Retry(u, "ConnectionFailure")
                           /\ evicted' = evicted \cup {proxy[u]}
         ELSE /\ Retry(u, "RequestFailure")
              /\ UNCHANGED << proxy_manager, evicted >>
  /\ UNCHANGED << now, attempts, mainVars, lockVars >>


\* ------------------------------------------------------------ main

NumSubmitted == Cardinality({ u \in Units : pc[u] # "idle" })

\* Where main goes after one pass of the submission loop.
LoopNext == IF NumSubmitted < NumPersons THEN "submit" ELSE "final"

\* Mutant of LoadAndValidate: main goes on without a usable proxy.
LoadAndValidate_GoesOn ==
  /\ mpc = "load"
  /\ \E all_proxies \in LoadedProxyLists :
       \E valid_proxies \in validate_proxies(all_proxies) :
         /\ proxy_manager' = NewProxyManager(valid_proxies, now)
         /\ mpc' = "submit"
  /\ UNCHANGED << now, unitVars, futures, idx, done_list, results, last_save_time,
                  current_time, file, saves, evicted, lockVars >>

\* main, lines 232-246: the proxies are loaded and validated; main returns
\* when none was loaded or none is valid, else it builds the ProxyManager.
LoadAndValidate ==
  /\ mpc = "load"
  /\ \E all_proxies \in LoadedProxyLists :
       IF all_proxies = << >>
         THEN mpc' = "no_proxies" /\ UNCHANGED proxy_manager
         ELSE \E valid_proxies \in validate_proxies(all_proxies) :
                IF valid_proxies = << >>
                  THEN mpc' = "no_valid_proxies" /\ UNCHANGED proxy_manager
                  ELSE /\ proxy_manager' = NewProxyManager(valid_proxies, now)
                       /\ mpc' = "submit"
  /\ UNCHANGED << now, unitVars, futures, idx, done_list, results, last_save_time,
                  current_time, file, saves, evicted, lockVars >>

\* main, line 258: executor.submit(process_person, args).
Submit ==
  /\ mpc = "submit"
  /\ NumSubmitted < NumPersons
  /\ LET u == NumSubmitted + 1
     IN /\ futures' = Append(futures, u)
        /\ pc' = [pc EXCEPT ![u] = "queued"]
  /\ mpc' = "check"
  /\ UNCHANGED << proxy_manager, now, retry_count, proxy, result, attempts, last,
                  all_server_error, all_unavailable, idx, done_list, results,
                  last_save_time, current_time, file, saves, evicted, lockVars >>

\* main, lines 259-263: after the pacing sleep, is a periodic save due?
CheckSave ==
  /\ mpc = "check"
  /\ IF now - last_save_time > SAVE_INTERVAL
       THEN /\ current_time' = now
            /\ mpc' = "scan"
            /\ idx' = 1
            /\ done_list' = << >>
       ELSE /\ mpc' = LoopNext
            /\ UNCHANGED << current_time, idx, done_list >>
  /\ UNCHANGED << proxy_manager, now, unitVars, futures, results, last_save_time,
                  file, saves, evicted, lockVars >>

\* Mutant of Scan: the futures are collected without testing done().
Scan_TakesAll ==
  /\ mpc = "scan"
  /\ done_list' = Append(done_list, futures[idx])
  /\ IF idx < Len(futures)
       THEN idx' = idx + 1 /\ UNCHANGED mpc
       ELSE idx' = 1 /\ mpc' = "drain"
  /\ UNCHANGED << proxy_manager, now, unitVars, futures, results, last_save_time,
                  current_time, file, saves, evicted, lockVars >>

\* main, line 265: [f for f in futures if f.done()], one future at a time.
Scan ==
  /\ mpc = "scan"
  /\ done_list' = IF Finished(futures[idx]) THEN Append(done_list, futures[idx])
                  ELSE done_list
  /\ IF idx < Len(futures)
       THEN idx' = idx + 1 /\ UNCHANGED mpc
       ELSE idx' = 1 /\ mpc' = "drain"
  /\ UNCHANGED << proxy_manager, now, unitVars, futures, results, last_save_time,
                  current_time, file, saves, evicted, lockVars >>

\* Mutant of DrainDone: a drained future is not removed from futures.
RECURSIVE DrainDone_KeepsFuture(_, _, _)
DrainDone_KeepsFuture(list, res, futs) ==
  IF list = << >> THEN [results |-> res, futures |-> futs]
  ELSE LET f == Head(list)
       IN IF pc[f] = "raised"
            THEN DrainDone_KeepsFuture(Tail(list), res, futs)
            ELSE DrainDone_KeepsFuture(Tail(list), res \o result[f], futs)

\* main, lines 265-271: the futures of `list` drained in order.  A future
\* holding an exception is logged and stays in futures.
RECURSIVE DrainDone(_, _, _)
DrainDone(list, res, futs) ==
  IF list = << >> THEN [results |-> res, futures |-> futs]
  ELSE LET f == Head(list)
       IN IF pc[f] = "raised"
            THEN DrainDone(Tail(list), res, futs)
            ELSE DrainDone(Tail(list), res \o result[f], Remove(futs, f))

Drain ==
  /\ mpc = "drain"
  /\ LET d == DrainDone(done_list, results, futures)
     IN /\ results' = d.results
        /\ futures' = d.futures
  /\ done_list' = << >>
  /\ mpc' = "save_open"
  /\ UNCHANGED << proxy_manager, now, unitVars, idx, last_save_time, current_time,
                  file, saves, evicted, lockVars >>

\* save_results, line 206: open(OUTPUT_FILE, "w") truncates the file.
OpenForWriting(f) == [state |-> "torn", records |-> << >>]

\* save_results, lines 207-208: json.dump(results, ...) and close.
Dump(res) == [state |-> "complete", records |-> res]

SaveOpen ==
  /\ mpc = "save_open"
  /\ file' = OpenForWriting(file)
  /\ mpc' = "save_write"
  /\ UNCHANGED << proxy_manager, now, unitVars, futures, idx, done_list, results,
                  last_save_time, current_time, saves, evicted, lockVars >>

\* main, lines 273-274: save_results() returns, last_save_time = current_time.
SaveWrite ==
  /\ mpc = "save_write"
  /\ file' = Dump(results)
  /\ saves' = saves + 1
  /\ last_save_time' = current_time
  /\ mpc' = LoopNext
  /\ UNCHANGED << proxy_manager, now, unitVars, futures, idx, done_list, results,
                  current_time, evicted, lockVars >>

\* main, lines 278-283: future.result() blocks until the unit has finished.
FinalDrain ==
  /\ mpc = "final"
  /\ idx <= Len(futures)
  /\ Finished(futures[idx])
  /\ results' = IF pc[futures[idx]] = "raised" THEN results
                ELSE results \o result[futures[idx]]
  /\ idx' = idx + 1
  /\ UNCHANGED << proxy_manager, now, unitVars, mpc, futures, done_list,
                  last_save_time, current_time, file, saves, evicted, lockVars >>

\* Mutant of FinalSaveOpen: the final save does not wait for the futures.
FinalSaveOpen_Early ==
  /\ mpc = "final"
  /\ file' = OpenForWriting(file)
  /\ mpc' = "final_write"
  /\ UNCHANGED << proxy_manager, now, unitVars, futures, idx, done_list, results,
                  last_save_time, current_time, saves, evicted, lockVars >>

\* main, line 285: the final save_results(), after the executor has shut down.
FinalSaveOpen ==
  /\ mpc = "final"
  /\ idx > Len(futures)
  /\ \A u \in Units : Finished(u)
  /\ file' = OpenForWriting(file)
  /\ mpc' = "final_write"
  /\ UNCHANGED << proxy_manager, now, unitVars, futures, idx, done_list, results,
                  last_save_time, current_time, saves, evicted, lockVars >>

FinalSaveWrite ==
  /\ mpc = "final_write"
  /\ file' = Dump(results)
  /\ saves' = saves + 1
  /\ mpc' = "end"
  /\ UNCHANGED << proxy_manager, now, unitVars, futures, idx, done_list, results,
                  last_save_time, current_time, evicted, lockVars >>

\* ------------------------------------------------------------ specification

UnitStep(u) ==
  \/ StartUnit(u)
  \/ Acquire(u)
  \/ GiveUp(u)
  \/ AttemptResponse(u)
  \/ AttemptException(u)

MainStep ==
  \/ LoadAndValidate
  \/ Submit
  \/ CheckSave
  \/ Scan
  \/ Drain
  \/ SaveOpen
  \/ SaveWrite
  \/ FinalDrain
  \/ FinalSaveOpen
  \/ FinalSaveWrite

Next ==
  \/ Tick
  \/ MainStep
  \/ \E u \in Units : UnitStep(u)

Spec == Init /\ [][Next]_vars

\* A step of the program: of the main thread or of a worker thread.
ProgramStep == MainStep \/ \E u \in Units : UnitStep(u)

\* While some thread of the program can take a step, one eventually does
\* (threads of the operating system); the clock is under no obligation.
FairSpec == Spec /\ WF_vars(ProgramStep)


\* The usage map and the endpoints that have an entry in it.
Usage == proxy_manager.proxy_usage
Live == DOMAIN Usage

\* ------------------------------------------------------------ self.lock
(***************************************************************************)
(* The ProxyManager as its callers and the executor self.lock run it, one  *)
(* statement at a time.  A worker thread of main's executor, inside        *)
(* query_api, submits the closure of a ProxyManager method to self.lock    *)
(* and blocks in future.result(); a thread of self.lock takes the closures *)
(* off its work queue, first in first out, and runs them.  The workers     *)
(* never run out of subjects here: each goes on calling get_proxy, then    *)
(* increment_usage or mark_proxy_failed for the proxy it got, or neither.  *)
(***************************************************************************)

\* self.lock.submit(closure) followed by future.result(): the work item is
\* queued and the caller waits.
Submitted(w, op, arg) ==
  /\ Dispatching
  /\ call[w] = "idle"
  /\ lock_queue' = Append(lock_queue, [caller |-> w, op |-> op, arg |-> arg])
  /\ call' = [call EXCEPT ![w] = "waiting"]
  /\ UNCHANGED << proxy_manager, now, unitVars, mainVars, evicted, held, lock_thread >>

\* query_api, line 158.
CallGetProxy(w) ==
  /\ held[w] = None
  /\ Submitted(w, "get_proxy", None)

\* query_api, line 180: the request returned a response.
CallIncrementUsage(w) ==
  /\ held[w] # None
  /\ Submitted(w, "increment_usage", held[w])

\* query_api, lines 198-199: the request raised a connection problem.
CallMarkProxyFailed(w) ==
  /\ held[w] # None
  /\ Submitted(w, "mark_proxy_failed", held[w])

\* query_api, lines 195-200: the request raised another RequestException;
\* the ProxyManager is not called.
RequestFailed(w) ==
  /\ call[w] = "idle"
  /\ held[w] # None
  /\ held' = [held EXCEPT ![w] = None]
  /\ UNCHANGED << proxy_manager, now, unitVars, mainVars, evicted, call,
                  lock_queue, lock_thread >>

\* A thread of self.lock takes the oldest work item; snap is the
\* ProxyManager as the closure finds it.
Take(th) ==
  /\ lock_thread[th].pc = "idle"
  /\ lock_queue # << >>
  /\ lock_thread' = [lock_thread EXCEPT ![th] =
       [ pc |-> Head(lock_queue).op, item |-> Head(lock_queue),
         snap |-> proxy_manager, t |-> 0, i |-> 0, n |-> 0, p |-> None, c |-> 0 ]]
  /\ lock_queue' = Tail(lock_queue)
  /\ UNCHANGED << proxy_manager, now, unitVars, mainVars, evicted, held, call >>

\* The closure returns ret or raises: the future is set, the thread is
\* idle again and the caller's future.result() returns or raises.  Only
\* get_proxy's return value is kept by the caller.
Finish(th, ret) ==
  LET item == lock_thread[th].item
  IN /\ lock_thread' = [lock_thread EXCEPT ![th] = IdleThread]
     /\ call' = [call EXCEPT ![item.caller] = "idle"]
     /\ held' = [held EXCEPT ![item.caller] =
                   IF item.op = "get_proxy" THEN ret ELSE None]

\* The closure goes on at position pos with its locals changed as in upd.
Goto(th, pos, upd) ==
  /\ lock_thread' = [lock_thread EXCEPT ![th] =
       [f \in DOMAIN @ |-> IF f = "pc" THEN pos
                           ELSE IF f \in DOMAIN upd THEN upd[f] ELSE @[f]]]
  /\ UNCHANGED << held, call >>

\* The keys of proxy_usage in the order a dict iterates over them.
KeyOrder(usage) == SelectSeq(<< "p1", "p2" >>, LAMBDA q : q \in DOMAIN usage)

\* _get_proxy, lines 91-94 and the loop test of line 97.
GetProxyEnter(th) ==
  /\ lock_thread[th].pc = "get_proxy"
  /\ IF proxy_manager.proxies = << >>
       THEN Finish(th, None)
       ELSE IF KeyOrder(Usage) = << >>
              THEN Goto(th, "gp_pop", [t |-> now, i |-> 0,
                                       n |-> Len(proxy_manager.proxy_queue)])
              ELSE Goto(th, "gp_reset", [t |-> now, i |-> 1])
  /\ UNCHANGED << proxy_manager, now, unitVars, mainVars, evicted, lock_queue >>

\* _get_proxy, lines 97-100: one iteration of the reset loop; after the
\* last one, line 103 evaluates range(len(self.proxy_queue)).
GetProxyReset(th) ==
  /\ lock_thread[th].pc = "gp_reset"
  /\ LET me == lock_thread[th]
         keys == KeyOrder(Usage)
         q == keys[me.i]
     IN IF me.i > Len(keys)
          THEN /\ Goto(th, "gp_pop", [i |-> 0, n |-> Len(proxy_manager.proxy_queue)])
               /\ UNCHANGED proxy_manager
          ELSE /\ proxy_manager' =
                    IF me.t - Usage[q].last_reset > WINDOW
                      THEN [proxy_manager EXCEPT !.proxy_usage[q] =
                              [count |-> 0, last_reset |-> me.t]]
                      ELSE proxy_manager
               /\ IF me.i < Len(keys)
                    THEN Goto(th, "gp_reset", [i |-> me.i + 1])
                    ELSE Goto(th, "gp_pop",
                              [i |-> 0, n |-> Len(proxy_manager.proxy_queue)])
  /\ UNCHANGED << now, unitVars, mainVars, evicted, lock_queue >>

\* _get_proxy, lines 103-104 and 113: the loop test and the popleft (which
\* raises IndexError on an empty deque).
GetProxyPop(th) ==
  /\ lock_thread[th].pc = "gp_pop"
  /\ LET me == lock_thread[th]
     IN IF me.i = me.n \/ proxy_manager.proxy_queue = << >>
          THEN Finish(th, None) /\ UNCHANGED proxy_manager
          ELSE /\ proxy_manager' =
                    [proxy_manager EXCEPT !.proxy_queue = Tail(@)]
               /\ Goto(th, "gp_test", [p |-> Head(proxy_manager.proxy_queue)])
  /\ UNCHANGED << now, unitVars, mainVars, evicted, lock_queue >>

\* Mutant of GetProxyTest: a proxy whose count has reached the quota is
\* still granted.
GetProxyTest_AtQuota(th) ==
  /\ lock_thread[th].pc = "gp_test"
  /\ LET me == lock_thread[th]
     IN IF me.p \notin Live
          THEN Finish(th, None) /\ UNCHANGED proxy_manager
          ELSE /\ proxy_manager' =
                    [proxy_manager EXCEPT !.proxy_queue = Append(@, me.p)]
               /\ IF Usage[me.p].count <= requests_per_hour
                    THEN Finish(th, me.p)
                    ELSE Goto(th, "gp_pop", [i |-> me.i + 1])
  /\ UNCHANGED << now, unitVars, mainVars, evicted, lock_queue >>

\* _get_proxy, lines 105-110: the test of the popped proxy's count (which
\* raises KeyError when it has no usage entry) and the append.
GetProxyTest(th) ==
  /\ lock_thread[th].pc = "gp_test"
  /\ LET me == lock_thread[th]
     IN IF me.p \notin Live
          THEN Finish(th, None) /\ UNCHANGED proxy_manager
          ELSE /\ proxy_manager' =
                    [proxy_manager EXCEPT !.proxy_queue = Append(@, me.p)]
               /\ IF Usage[me.p].count < requests_per_hour
                    THEN Finish(th, me.p)
                    ELSE Goto(th, "gp_pop", [i |-> me.i + 1])
  /\ UNCHANGED << now, unitVars, mainVars, evicted, lock_queue >>

\* _increment, lines 122-123: the membership test and the read of the
\* count.
IncrementRead(th) ==
  /\ lock_thread[th].pc = "increment_usage"
  /\ LET me == lock_thread[th]
     IN IF me.item.arg \in Live
          THEN Goto(th, "inc_write", [c |-> Usage[me.item.arg].count])
          ELSE Finish(th, None)
  /\ UNCHANGED << proxy_manager, now, unitVars, mainVars, evicted, lock_queue >>

\* _increment, line 123: the count read, plus one, is stored.
IncrementWrite(th) ==
  /\ lock_thread[th].pc = "inc_write"
  /\ LET me == lock_thread[th]
     IN /\ proxy_manager' =
             IF me.item.arg \in Live
               THEN [proxy_manager EXCEPT !.proxy_usage[me.item.arg].count = me.c + 1]
               ELSE proxy_manager
        /\ Finish(th, None)
  /\ UNCHANGED << now, unitVars, mainVars, evicted, lock_queue >>

\* _mark_failed, lines 131-132.
MarkRemove(th) ==
  /\ lock_thread[th].pc = "mark_proxy_failed"
  /\ LET me == lock_thread[th]
     IN IF me.item.arg \in Range(proxy_manager.proxies)
          THEN /\ proxy_manager' =
                    [proxy_manager EXCEPT !.proxies = Remove(@, me.item.arg)]
               /\ Goto(th, "mf_del", << >>)
          ELSE Finish(th, None) /\ UNCHANGED proxy_manager
  /\ UNCHANGED << now, unitVars, mainVars, evicted, lock_queue >>

\* _mark_failed, line 133: del self.proxy_usage[proxy], which raises
\* KeyError when the entry is gone.
MarkDelete(th) ==
  /\ lock_thread[th].pc = "mf_del"
  /\ LET me == lock_thread[th]
     IN IF me.item.arg \in Live
          THEN /\ proxy_manager' =
                    [proxy_manager EXCEPT !.proxy_usage =
                       [q \in Live \ {me.item.arg} |-> Usage[q]]]
               /\ Goto(th, "mf_rebuild", << >>)
          ELSE Finish(th, None) /\ UNCHANGED proxy_manager
  /\ UNCHANGED << now, unitVars, mainVars, evicted, lock_queue >>

\* _mark_failed, line 136: the queue is rebuilt from the list.
MarkRebuild(th) ==
  /\ lock_thread[th].pc = "mf_rebuild"
  /\ proxy_manager' = [proxy_manager EXCEPT !.proxy_queue = proxy_manager.proxies]
  /\ Finish(th, None)
  /\ UNCHANGED << now, unitVars, mainVars, evicted, lock_queue >>

WorkerCall(w) ==
  \/ CallGetProxy(w)
  \/ CallIncrementUsage(w)
  \/ CallMarkProxyFailed(w)
  \/ RequestFailed(w)

LockStep(th) ==
  \/ Take(th)
  \/ GetProxyEnter(th)
  \/ GetProxyReset(th)
  \/ GetProxyPop(th)
  \/ GetProxyTest(th)
  \/ IncrementRead(th)
  \/ IncrementWrite(th)
  \/ MarkRemove(th)
  \/ MarkDelete(th)
  \/ MarkRebuild(th)

LockNext ==
  \/ LoadAndValidate
  \/ Tick
  \/ \E w \in Workers : WorkerCall(w)
  \/ \E th \in LockThreads : LockStep(th)

\* A thread of self.lock that can take a step eventually takes one.
LockSpec ==
  /\ Init
  /\ [][LockNext]_vars
  /\ WF_vars(\E th \in LockThreads : LockStep(th))

\* ------------------------------------------------------------ shorthands


\* Unit u's step is a grant: get_proxy returned a proxy to it.
Granted(u) == pc[u] = "acquire" /\ pc'[u] = "request"

\* Unit u's step is the end of an attempt that sent a request.
Attempted(u) == pc[u] = "request" /\ pc'[u] # "request"

\* ------------------------------------------------------------ claims

\* C1: with workers running query_api concurrently against the shared
\* ProxyManager, every live endpoint's usage count stays within
\* requests_per_hour in every reachable state.
C1_UsageWithinQuota ==
  \A p \in Live : Usage[p].count <= requests_per_hour

\* C2: once a mark_proxy_failed(p) call has completed, no later get_proxy
\* call of any worker returns p, whatever happens in between (grants,
\* usage increments, further evictions, window resets).
C2_EvictedNeverGranted ==
  [][\A u \in Units : Granted(u) => proxy'[u] \notin evicted]_vars

\* C2 witness: p1 has been evicted by unit 1 (the only unit submitted so
\* far), a window has elapsed, and unit 1's next get_proxy has returned p2.
C2_Witness ==
  /\ evicted = {"p1"}
  /\ pc[2] = "idle"
  /\ pc[1] = "request"
  /\ proxy[1] = "p2"
  /\ Usage["p2"].last_reset > 0

\* C3: query_api starts at most max_retries iterations of its loop (each
\* sends at most one request), and a subject whose every attempt was a
\* server error ends with no record after exactly max_retries attempts.
C3_BoundedAttempts ==
  \A u \in Units :
    /\ attempts[u] <= max_retries
    /\ retry_count[u] <= max_retries
    /\ pc[u] = "request" => retry_count[u] < max_retries
    /\ (pc[u] = "done" /\ all_server_error[u]) =>
         (attempts[u] = max_retries /\ result[u] = << >>)

\* C3 witness: a subject has finished after three server errors.
C3_Witness ==
  \E u \in Units :
    pc[u] = "done" /\ all_server_error[u] /\ attempts[u] = max_retries

\* C4 (as stated): after an attempt answered with a status that is
\* neither 200, 429 nor 5xx, query_api issues no further request for the
\* subject, and the subject ends with no record.
C4_ClientErrorEndsSubject ==
  [][\A u \in Units :
       /\ last[u] = "ClientError" => ~Granted(u)
       /\ (Attempted(u) /\ last'[u] = "ClientError") => retry_count'[u] >= max_retries
    ]_vars

\* C4 (amended): an attempt answered with such a status is counted against
\* the retry budget like any other failed attempt (usage recorded,
\* retry_count + 1) and the subject goes back to the loop's test; it ends
\* Exhausted, with no record, only when retry_count has reached
\* max_retries.
C4_ClientErrorRetried ==
  [][\A u \in Units :
       /\ (Attempted(u) /\ last'[u] = "ClientError") =>
            /\ retry_count'[u] = retry_count[u] + 1
            /\ pc'[u] = "acquire"
            /\ result'[u] = result[u]
            /\ proxy_manager' = increment_usage(proxy_manager, proxy[u])
       /\ (last[u] = "ClientError" /\ pc'[u] = "done") =>
            /\ retry_count[u] = max_retries
            /\ result'[u] = << >>
       /\ (last[u] = "ClientError" /\ retry_count[u] < max_retries) =>
            pc'[u] # "done"
    ]_vars

\* C4 witness: a subject's first attempt was answered with such a status
\* and the subject is back at the loop's test with budget left.
C4_Witness ==
  \E u \in Units :
    pc[u] = "acquire" /\ last[u] = "ClientError" /\ retry_count[u] = 1

\* C5: every record of a subject's result carries the subject's own value
\* for each identity key, also when the API record has a key of that name.
C5_IdentityWins ==
  \A u \in Units : \A k \in 1..Len(result[u]) : \A key \in IdentityKeys :
    result[u][k][key] = Identity(persons[u])[key]

\* C6: from the first completed save_results on, the output file always
\* holds a complete document.
C6_CheckpointAlwaysComplete ==
  saves >= 1 => file.state = "complete"

\* The units whose future main has drained into results.
Drained ==
  { u \in Units : pc[u] # "idle" /\ u \notin Range(futures) }
    \cup (IF mpc \in {"final", "final_write", "end"}
            THEN { futures[j] : j \in 1..(idx - 1) }
            ELSE {})

RECURSIVE SumLen(_)
SumLen(S) ==
  IF S = {} THEN 0
  ELSE LET u == CHOOSE v \in S : TRUE
       IN Len(result[u]) + SumLen(S \ {u})

\* C7: the records of every drained unit are in results exactly once, and
\* at the end of the run the output holds as many records as the subjects
\* whose query_api returned on HTTP 200 got back.
C7_EachUnitOnce ==
  /\ Len(results) = SumLen(Drained)
  /\ mpc = "end" =>
       /\ file.state = "complete"
       /\ Len(file.records) = SumLen({ u \in Units : last[u] = "Success" })

\* C7 witness: the run has ended, one unit was drained by a periodic save
\* and one by the final drain, and both had got a record.
C7_Witness ==
  /\ mpc = "end"
  /\ saves = 2
  /\ Len(futures) = 1
  /\ \A u \in Units : last[u] = "Success" /\ Len(result[u]) = 1

\* The usage entries of the endpoints other than p are left as they were.
OthersUntouched(p) ==
  \A q \in DOMAIN proxy_manager'.proxy_usage \ {p} :
    q \in Live /\ proxy_manager'.proxy_usage[q] = Usage[q]

\* C8 (as stated): an attempt whose request raised evicts the endpoint
\* used, records no usage for it, counts toward the retry budget, and the
\* subject is not granted that endpoint again.
C8_TransportFailureEvicts ==
  [][\A u \in Units :
       /\ (Attempted(u) /\ last'[u] \in {"ConnectionFailure", "RequestFailure"}) =>
            /\ proxy[u] \in evicted'
            /\ proxy[u] \notin DOMAIN proxy_manager'.proxy_usage
            /\ OthersUntouched(proxy[u])
            /\ retry_count'[u] = retry_count[u] + 1
       /\ Granted(u) => proxy'[u] \notin evicted
    ]_vars

\* C8 (amended): only a connection-level failure (ConnectTimeout,
\* ConnectionError) evicts: the endpoint loses its usage entry and is
\* granted to nobody again, the other endpoints' entries are untouched and
\* the attempt is counted; when the address had been evicted before and is
\* still listed (it was listed twice), the eviction itself raises KeyError
\* and ends the unit.  Any other RequestException leaves the pool exactly
\* as it was (the endpoint stays in the rotation and may serve the next
\* attempt) and the attempt is counted.  No usage is recorded either way.
C8_ConnectionFailureEvicts ==
  [][\A u \in Units :
       /\ (Attempted(u) /\ last'[u] = "ConnectionFailure") =>
            /\ proxy[u] \in evicted'
            /\ proxy[u] \notin DOMAIN proxy_manager'.proxy_usage
            /\ OthersUntouched(proxy[u])
            /\ retry_count'[u] = retry_count[u] + 1
            /\ pc'[u] = "acquire"
       /\ (Attempted(u) /\ last'[u] = "RequestFailure") =>
            /\ proxy_manager' = proxy_manager
            /\ evicted' = evicted
            /\ retry_count'[u] = retry_count[u] + 1
            /\ pc'[u] = "acquire"
       /\ (Attempted(u) /\ last'[u] = "KeyError") =>
            /\ proxy[u] \in evicted
            /\ proxy[u] \notin Live
            /\ proxy_manager'.proxy_usage = Usage
            /\ pc'[u] = "raised"
       /\ Granted(u) => proxy'[u] \notin evicted
    ]_vars

\* C8 witness: one subject's attempt has just ended in a connection
\* failure that evicted p1, the other's in a failure that evicted nothing:
\* p2, the only endpoint the other can have used, is still live.
C8_Witness ==
  /\ evicted = {"p1"}
  /\ Live = {"p2"}
  /\ \E u, v \in Units :
       /\ pc[u] = "acquire" /\ last[u] = "ConnectionFailure"
       /\ pc[v] = "acquire" /\ last[v] = "RequestFailure" /\ attempts[v] = 1
       /\ Usage["p2"].count = 0

\* C9 (as stated): an attempt answered 429 or 5xx leaves pool membership
\* unchanged, adds exactly one to the usage count of the endpoint used,
\* adds one to the subject's retry count and sends it back to acquiring.
C9_RetryableKeepsEndpoint ==
  [][\A u \in Units :
       (Attempted(u) /\ last'[u] \in {"RateLimited", "ServerError"}) =>
         /\ proxy_manager'.proxies = proxy_manager.proxies
         /\ proxy_manager'.proxy_queue = proxy_manager.proxy_queue
         /\ proxy[u] \in Live
         /\ proxy_manager'.proxy_usage =
              [Usage EXCEPT ![proxy[u]].count = @ + 1]
         /\ retry_count'[u] = retry_count[u] + 1
         /\ pc'[u] = "acquire"
    ]_vars

\* C9 (amended): such an attempt never changes pool membership; it adds
\* exactly one to the usage count of the endpoint used if that endpoint is
\* still in the pool, and records nothing if another worker has evicted it
\* in the meantime; it adds one to the subject's retry count and sends the
\* subject back to the loop's test.
C9_RetryableKeepsMembership ==
  [][\A u \in Units :
       (Attempted(u) /\ last'[u] \in {"RateLimited", "ServerError"}) =>
         /\ proxy_manager'.proxies = proxy_manager.proxies
         /\ proxy_manager'.proxy_queue = proxy_manager.proxy_queue
         /\ evicted' = evicted
         /\ proxy_manager'.proxy_usage =
              IF proxy[u] \in Live
                THEN [Usage EXCEPT ![proxy[u]].count = @ + 1]
                ELSE Usage
         /\ retry_count'[u] = retry_count[u] + 1
         /\ pc'[u] = "acquire"
    ]_vars

\* C9 witness: the only unit submitted so far has had one attempt, answered
\* 429, through p1, which is still live with that one use recorded.
C9_Witness ==
  /\ pc[2] = "idle"
  /\ pc[1] = "acquire" /\ last[1] = "RateLimited" /\ attempts[1] = 1
  /\ Live = {"p1"}
  /\ Usage["p1"].count = 1

\* C10: an acquisition that finds no proxy counts as one attempt; a subject
\* that only ever finds none ends with no record after max_retries
\* attempts without raising; and once the pool is empty every subject
\* still in its loop can only find no proxy or give up with no record.
C10_UnavailableCounts ==
  /\ [](\A u \in Units :
          (all_unavailable[u] /\ attempts[u] >= 1) =>
            /\ retry_count[u] = attempts[u]
            /\ pc[u] \in {"acquire", "done"}
            /\ pc[u] = "done" => (attempts[u] = max_retries /\ result[u] = << >>))
  /\ [][\A u \in Units :
          /\ (pc[u] = "acquire" /\ last'[u] = "Unavailable"
                /\ attempts'[u] # attempts[u]) =>
               /\ attempts'[u] = attempts[u] + 1
               /\ retry_count'[u] = retry_count[u] + 1
               /\ pc'[u] = "acquire"
          /\ (pc[u] = "acquire" /\ proxy_manager.proxies = << >>
                /\ << pc[u], attempts[u] >> # << pc'[u], attempts'[u] >>) =>
               /\ result'[u] = << >>
               /\ \/ pc'[u] = "acquire" /\ last'[u] = "Unavailable"
                  \/ pc'[u] = "done" /\ last'[u] = "Exhausted"
                       /\ retry_count[u] = max_retries
       ]_vars

\* C10 witness: the only proxy was evicted on the subject's first attempt,
\* the pool is empty, and the subject has ended Exhausted after
\* max_retries attempts.
C10_Witness ==
  /\ proxy_manager.proxies = << >>
  /\ evicted = {"p1"}
  /\ pc[2] = "idle"
  /\ pc[1] = "done" /\ last[1] = "Exhausted" /\ attempts[1] = max_retries
  /\ result[1] = << >>

\* ------------------------------------------------------------ main's checkpoints

\* The records of unit u in a sequence of result records (the API records
\* never carry a family_name of their own).
RecordsOf(u, recs) ==
  SelectSeq(recs, LAMBDA r : r.family_name = persons[u].family_name)

\* C11: in every run that passes proxy validation, whatever the outcomes
\* of the units (records, no record, an exception), the final save is
\* eventually made, once: it starts only when every unit has been
\* submitted, has finished and has had its future drained, it writes the
\* whole of results (every unit's records, possibly none), and nothing is
\* written after it.
C11_FinalCheckpoint ==
  /\ [][ /\ (mpc # "final_write" /\ mpc' = "final_write") =>
              /\ mpc = "final"
              /\ NumSubmitted = NumPersons
              /\ \A u \in Units : Finished(u)
              /\ Drained = Units
              /\ \A u \in Units : RecordsOf(u, results) = result[u]
         /\ (mpc = "final_write" /\ mpc' # "final_write") =>
              /\ mpc' = "end"
              /\ file' = Dump(results)
              /\ results' = results
         /\ mpc = "end" =>
              /\ mpc' = "end"
              /\ file' = file
              /\ results' = results
              /\ saves' = saves
       ]_vars
  /\ [](mpc = "end" =>
          /\ file = Dump(results)
          /\ \A u \in Units : RecordsOf(u, file.records) = result[u])
  /\ (mpc = "submit") ~> (mpc = "end")

\* C11 witness: the run has ended with the final save made; one unit ended
\* with an exception, the other with one record, which is the file's only
\* record.
C11_Witness ==
  /\ mpc = "end"
  /\ \E u, v \in Units :
       /\ pc[u] = "raised"
       /\ last[v] = "Success" /\ Len(result[v]) = 1
       /\ file = Dump(result[v])

\* More than SAVE_INTERVAL has passed since the last save.
Overdue == now - last_save_time > SAVE_INTERVAL

\* The units submitted and not finished.
InFlight == { u \in Units : pc[u] \in {"queued", "acquire", "request"} }

\* C12: between the first submission and the final save, also once the
\* last unit has been submitted and units are still in flight, when a save
\* is overdue the next thing main does is the periodic save: it collects
\* the finished futures, writes results and records the time it read.
C12_OverdueCheckpointWritten ==
  [][ /\ ( /\ Overdue /\ InFlight # {}
           /\ mpc \in {"check", "final"}
           /\ << mpc, idx >> # << mpc', idx' >> ) =>
             (mpc' = "scan" /\ current_time' = now)
      /\ (mpc = "save_write" /\ mpc' # "save_write") =>
             (file' = Dump(results) /\ last_save_time' = current_time)
    ]_vars

\* C13: a periodic save writes exactly the records of the units drained
\* so far: those whose future was found done by this save's collection
\* (and held no exception) and those drained by earlier saves; every one
\* of them has finished, and the file holds nothing of a unit in flight.
C13_SnapshotOfCompleted ==
  [][ /\ (mpc = "drain" /\ mpc' # "drain") =>
            /\ \A u \in Range(done_list) : Finished(u)
            /\ Drained' = Drained \cup { u \in Range(done_list) : pc[u] = "done" }
            /\ \A u \in Units :
                 RecordsOf(u, results') = IF u \in Drained' THEN result[u] ELSE << >>
            /\ Len(results') = SumLen(Drained')
      /\ (mpc = "save_write" /\ mpc' # "save_write") =>
            /\ file' = Dump(results)
            /\ \A u \in Drained : Finished(u) /\ RecordsOf(u, file'.records) = result[u]
            /\ \A u \in InFlight : u \notin Drained /\ RecordsOf(u, file'.records) = << >>
            /\ Len(file'.records) = SumLen(Drained)
    ]_vars

\* C13 witness: a periodic save has been written while unit 2 had a
\* request out; the file holds unit 1's one record and nothing else, and
\* unit 2 is still in flight.
C13_Witness ==
  /\ saves = 1
  /\ mpc = "final" /\ idx = 1
  /\ futures = << 2 >>
  /\ pc[1] = "done" /\ Len(result[1]) = 1
  /\ pc[2] = "request"
  /\ file = Dump(result[1])

\* ------------------------------------------------------------ the pool

\* What the usage map is once get_proxy has made its lazy resets.
UsageAtScan ==
  IF proxy_manager.proxies = << >> THEN Usage ELSE ResetWindows(Usage, now)

\* Unit u's step is a get_proxy call (one iteration of query_api starts).
Acquires(u) == pc[u] = "acquire" /\ attempts'[u] = attempts[u] + 1

\* The rotation `queue` moved just past its k-th entry.
RotatedPast(queue, k) == SubSeq(queue, k + 1, Len(queue)) \o SubSeq(queue, 1, k)

\* The returns of n consecutive get_proxy calls at time t.
RECURSIVE Grants(_, _, _)
Grants(pm, t, n) ==
  IF n = 0 THEN << >>
  ELSE LET g == get_proxy(pm, t)
       IN << (IF g.raised THEN "KeyError" ELSE g.ret) >> \o Grants(g.pm, t, n - 1)

\* C14: get_proxy returns the first endpoint of the rotation whose count
\* is below requests_per_hour and moves the rotation just past it; it
\* returns None exactly when the pool has no endpoint or every live
\* endpoint is at or over its quota, and then the rotation is left as it
\* was; with n live endpoints all under quota, n consecutive calls return
\* n distinct endpoints.
C14_RoundRobinGrant ==
  /\ [][\A u \in Units : Acquires(u) =>
          LET usage == UsageAtScan
              queue == proxy_manager.proxy_queue
              NoneFree == \A p \in DOMAIN usage : usage[p].count >= requests_per_hour
          IN IF proxy_manager.proxies = << >> \/ NoneFree
               THEN /\ pc'[u] = "acquire" /\ last'[u] = "Unavailable"
                    /\ proxy_manager'.proxy_queue = queue
               ELSE /\ Granted(u)
                    /\ \E k \in 1..Len(queue) :
                         /\ proxy'[u] = queue[k]
                         /\ usage[queue[k]].count < requests_per_hour
                         /\ \A j \in 1..(k - 1) :
                              usage[queue[j]].count >= requests_per_hour
                         /\ proxy_manager'.proxy_queue = RotatedPast(queue, k)
       ]_vars
  /\ [](LET usage == UsageAtScan
             n == Cardinality(DOMAIN usage)
         IN (\A p \in DOMAIN usage : usage[p].count < requests_per_hour) =>
              Cardinality(Range(Grants(proxy_manager, now, n))) = n)

\* Unit u's step ends an attempt with a call of mark_proxy_failed.
Evicts(u) == Attempted(u) /\ last'[u] \in {"ConnectionFailure", "KeyError"}

\* C15: a mark_proxy_failed call never raises; it takes the endpoint out
\* of the list, the usage map and the rotation, which it rebuilds from the
\* remaining live endpoints, and leaves every other endpoint's count and
\* window start as they were; a second eviction of the same endpoint, by
\* the same or by another worker that held it, changes nothing.
C15_EvictionIdempotent ==
  [][\A u \in Units : Evicts(u) =>
       /\ pc'[u] # "raised"
       /\ OthersUntouched(proxy[u])
       /\ proxy[u] \notin Range(proxy_manager'.proxies)
       /\ proxy[u] \notin DOMAIN proxy_manager'.proxy_usage
       /\ Range(proxy_manager'.proxy_queue) = DOMAIN proxy_manager'.proxy_usage
       /\ IF proxy[u] \in evicted
            THEN proxy_manager' = proxy_manager
            ELSE proxy_manager'.proxy_queue = proxy_manager'.proxies
    ]_vars

\* C16: the usage count of an endpoint goes down, or its window start
\* moves, only in a get_proxy call made more than WINDOW seconds after the
\* window start: the count becomes 0 and the window start the time of the
\* call; such a call resets every endpoint whose window has elapsed; any
\* other change of a count is an increment by one, and nothing changes a
\* count or a window start while no worker takes a step.  At exactly
\* WINDOW seconds after the window start nothing is reset yet.
C16_LazyWindowReset ==
  /\ [](\A p \in Live :
          LET start == Usage[p].last_reset
          IN /\ ResetWindows(Usage, start + WINDOW)[p] = Usage[p]
             /\ ResetWindows(Usage, start + WINDOW + 1)[p] =
                  [count |-> 0, last_reset |-> start + WINDOW + 1])
  /\ [][\A p \in Live \cap DOMAIN proxy_manager'.proxy_usage :
          LET old == Usage[p]
              new == proxy_manager'.proxy_usage[p]
              InGetProxy == \E u \in Units : Acquires(u)
              Elapsed == now - old.last_reset > WINDOW
          IN /\ (new.count < old.count \/ new.last_reset # old.last_reset) =>
                  /\ InGetProxy /\ Elapsed
                  /\ new = [count |-> 0, last_reset |-> now]
             /\ (InGetProxy /\ Elapsed) => new = [count |-> 0, last_reset |-> now]
             /\ new.count > old.count =>
                  /\ new.count = old.count + 1
                  /\ \E u \in Units : Attempted(u) /\ proxy[u] = p
             /\ (\A u \in Units : pc'[u] = pc[u] /\ attempts'[u] = attempts[u]) =>
                  new = old
       ]_vars

\* C16 witness: p1, the only proxy, served unit 1's successful request in
\* the first window; unit 2's get_proxy, made after the window had
\* elapsed, has set the count back to 0 and started a window at the time
\* of the call.
C16_Witness ==
  /\ proxy_manager.proxies = << "p1" >>
  /\ last[1] = "Success" /\ attempts[1] = 1
  /\ pc[2] = "request" /\ attempts[2] = 1
  /\ now > WINDOW
  /\ Usage["p1"] = [count |-> 0, last_reset |-> now]

\* ------------------------------------------------------------ the lock

\* The threads of self.lock that are running a closure.
Busy == { th \in LockThreads : lock_thread[th].pc # "idle" }

\* Thread th's step takes a work item / ends the closure it runs.
Takes(th) == lock_thread[th].pc = "idle" /\ lock_thread'[th].pc # "idle"
Finishes(th) == lock_thread[th].pc # "idle" /\ lock_thread'[th].pc = "idle"

\* The work items of worker w that are queued or being run.
Pending(w) ==
  Cardinality({ k \in 1..Len(lock_queue) : lock_queue[k].caller = w })
    + Cardinality({ th \in Busy : lock_thread[th].item.caller = w })

\* What the method of `item` makes of ProxyManager pm as one indivisible
\* operation at clock reading t: the ProxyManager after it and what the
\* caller keeps of its outcome.
Atomic(item, pm, t) ==
  IF item.op = "get_proxy"
    THEN LET g == get_proxy(pm, t)
         IN [pm |-> g.pm, ret |-> IF g.raised THEN None ELSE g.ret]
    ELSE IF item.op = "increment_usage"
           THEN [pm |-> increment_usage(pm, item.arg), ret |-> None]
           ELSE [pm |-> mark_proxy_failed(pm, item.arg).pm, ret |-> None]

\* C17: at most one closure of get_proxy, increment_usage or
\* mark_proxy_failed is under way at any time; the closures are run in
\* the order of their submission; while one is under way nothing else
\* changes the ProxyManager, and when it ends the ProxyManager and the
\* value returned are what the method makes, as one indivisible
\* operation, of the ProxyManager it found; and every call submitted
\* returns to its caller.
C17_PoolOperationsSerialized ==
  /\ [](Cardinality(Busy) <= 1)
  /\ [](\A w \in Workers : Pending(w) = IF call[w] = "waiting" THEN 1 ELSE 0)
  /\ [][ /\ \A th \in LockThreads :
              /\ Takes(th) =>
                   /\ lock_thread'[th].item = Head(lock_queue)
                   /\ lock_queue' = Tail(lock_queue)
                   /\ lock_thread'[th].snap = proxy_manager
                   /\ proxy_manager' = proxy_manager
              /\ (th \in Busy /\ lock_thread'[th] = lock_thread[th]) =>
                   proxy_manager' = proxy_manager
              /\ Finishes(th) =>
                   LET me == lock_thread[th]
                       a == Atomic(me.item, me.snap, me.t)
                   IN /\ proxy_manager' = a.pm
                      /\ held'[me.item.caller] = a.ret
                      /\ call'[me.item.caller] = "idle"
         /\ Len(lock_queue') > Len(lock_queue) =>
              /\ SubSeq(lock_queue', 1, Len(lock_queue)) = lock_queue
              /\ Len(lock_queue') = Len(lock_queue) + 1
         /\ (Dispatching /\ Busy = {} /\ Busy' = {}) =>
              proxy_manager' = proxy_manager
       ]_vars
  /\ \A w \in Workers : (call[w] = "waiting") ~> (call[w] = "idle")

\* C17 witness: a get_proxy closure is in the middle of its scan (it has
\* popped p1 off the queue) while the calls of the two other workers, an
\* increment_usage and a mark_proxy_failed, wait in the work queue.
C17_Witness ==
  /\ \E th \in LockThreads :
       /\ lock_thread[th].pc = "gp_test"
       /\ lock_thread[th].p = "p1"
  /\ Len(lock_queue) = 2
  /\ { lock_queue[k].op : k \in 1..Len(lock_queue) }
       = {"increment_usage", "mark_proxy_failed"}
  /\ \A w \in Workers : call[w] = "waiting"


\* ------------------------------------------------------------ the abort

\* main has returned at line 235 or at line 240.
Aborted == mpc \in {"no_proxies", "no_valid_proxies"}

\* C18: when no proxy is loaded or none passes validation, main returns
\* before any dispatch: no work unit is submitted, no unit starts, no
\* request attempt is made, no pool operation is called, nothing is
\* collected and OUTPUT_FILE is never opened; nothing happens afterwards;
\* and main leaves the loading for the dispatch only with a ProxyManager
\* built from a non-empty list.
C18_AbortBeforeDispatch ==
  /\ [](~Dispatching => InitWith(NoProxyManager, mpc))
  /\ [](Aborted =>
          /\ file = NoFile /\ saves = 0
          /\ futures = << >> /\ results = << >>
          /\ \A u \in Units : pc[u] = "idle" /\ attempts[u] = 0)
  /\ [][ /\ ~Aborted
         /\ (mpc = "load" /\ mpc' # "load") =>
              \/ Aborted' /\ proxy_manager' = NoProxyManager
              \/ /\ mpc' = "submit"
                 /\ proxy_manager'.proxies # << >>
                 /\ proxy_manager'.proxy_queue = proxy_manager'.proxies
                 /\ DOMAIN proxy_manager'.proxy_usage = Range(proxy_manager'.proxies)
         /\ (mpc = "load" /\ mpc' = "load") => UNCHANGED vars
       ]_vars

\* C18 witness: main has returned because no loaded proxy passed
\* validation, with nothing dispatched and no output file.
C18_Witness ==
  /\ mpc = "no_valid_proxies"
  /\ futures = << >>
  /\ file = NoFile

\* C18 witness of the other exit: the proxy file gave no proxy.
C18_Witness_NoProxies ==
  /\ mpc = "no_proxies"
  /\ futures = << >>
  /\ file = NoFile


\* ------------------------------------------------------------ the overshoot

\* The workers whose last get_proxy returned q and whose request with it
\* has not ended: the grants of q in flight.
Holders(q) == { w \in Workers : held[w] = q }

\* Thread th's step ends a get_proxy closure that returns q to its caller.
GrantsTo(th, q) ==
  /\ Finishes(th)
  /\ lock_thread[th].item.op = "get_proxy"
  /\ held'[lock_thread[th].item.caller] = q

\* C19: the count of a live endpoint never exceeds requests_per_hour +
\* MAX_WORKERS - 1, because count plus grants in flight never does; and
\* get_proxy grants an endpoint only when its count is below
\* requests_per_hour at the test, so an endpoint whose count had reached
\* requests_per_hour when the call began is granted only if that call reset
\* its window (more than WINDOW seconds after the window's start).
C19_BoundedOvershoot ==
  /\ [](\A q \in Live :
          /\ Usage[q].count <= requests_per_hour + MAX_WORKERS - 1
          /\ Usage[q].count + Cardinality(Holders(q))
               <= requests_per_hour + MAX_WORKERS - 1)
  /\ [][ \A th \in LockThreads : \A q \in Proxies :
           GrantsTo(th, q) =>
             LET me == lock_thread[th]
                 before == me.snap.proxy_usage
             IN /\ q \in Live
                /\ Usage[q].count < requests_per_hour
                /\ q \in DOMAIN before
                /\ before[q].count >= requests_per_hour =>
                     /\ me.t - before[q].last_reset > WINDOW
                     /\ Usage[q] = [count |-> 0, last_reset |-> me.t]
       ]_vars

\* C19 witness: three workers were granted p1 while its count was below
\* requests_per_hour and all three requests were counted: the count stands
\* at requests_per_hour + MAX_WORKERS - 1, with no call under way.
C19_Witness ==
  /\ "p1" \in Live
  /\ Usage["p1"].count = requests_per_hour + MAX_WORKERS - 1
  /\ proxy_manager.proxies = << "p1" >>
  /\ \A w \in Workers : held[w] = None /\ call[w] = "idle"
  /\ lock_queue = << >> /\ Busy = {}


\* ------------------------------------------------------------ consistency

\* The number of entries of sequence s equal to q.
Occurrences(s, q) == Cardinality({ k \in 1..Len(s) : s[k] = q })

\* C20: whatever validated list the ProxyManager was built from and
\* whatever calls were made on it, the rotation queue holds exactly the
\* entries of the live list, every address in the queue (and in the list)
\* has a usage entry, and no call on the ProxyManager fails with KeyError.
C20_PoolConsistent ==
  Dispatching =>
    /\ \A q \in Proxies :
         Occurrences(proxy_manager.proxy_queue, q)
           = Occurrences(proxy_manager.proxies, q)
    /\ Range(proxy_manager.proxy_queue) \subseteq Live
    /\ Range(proxy_manager.proxies) \subseteq Live
    /\ \A u \in Units : last[u] # "KeyError"

=============================================================================
